---------------------------- MODULE Spec2Model ----------------------------
(***************************************************************************)
(* Trade lifecycle of the Telegram -> Bybit signal bot.                    *)
(*                                                                         *)
(* Program state: the state blob of main.py (open_trades, trade_history,   *)
(* daily_counts, seen_signal_hashes) and the position of the Telegram      *)
(* handler between its critical sections.  Environment: the exchange       *)
(* (entry orders, take-profit orders, the position per symbol) and the     *)
(* clock.  The maintenance sweep and the WebSocket execution handler each  *)
(* run wholly inside one acquisition of state_lock (main.py 187, 221), so   *)
(* each is one atomic action; the Telegram handler takes the lock several   *)
(* times and is one action per critical section.                           *)
(*                                                                         *)
(* A trade id is "<symbol>|<side>|<acceptance second>"; the model names    *)
(* the accepted trades by their slot 1..MaxTrades in acceptance order.     *)
(* Time is counted in ticks; timestamps are tick numbers.                  *)
(***************************************************************************)
EXTENDS Integers, Sequences, FiniteSets, TLC

\* ---------------------------------------------------------------- bounds
MaxTrades == 3
TradesFollowed == 2
MaxTime == 4
SeenCap == 2
MaxSize == 12
MaxStep == 2
MaxMinQty == 4
MaxCandles == 5
MaxTps == 4
MaxTick == 2

\* ------------------------------------------------- configuration (config)
DRY_RUN == FALSE
MOVE_SL_TO_BE_ON_TP1 == TRUE
TRAIL_ACTIVATE_ON_TP == TRUE
TRAIL_AFTER_TP_INDEX == 4
MAX_CONCURRENT_TRADES == 2
MAX_TRADES_PER_DAY == 2
SIGNALS_PER_WINDOW == 2
SIGNAL_WINDOW_TICKS == 1
ENTRY_EXPIRATION_TICKS == 1
RETENTION_TICKS == 2
DAY_TICKS == 2
SL_BUFFER_PCT == 1
SL_MIN_PCT == 2
SL_MAX_PCT == 10
BE_PNL_TENTHS == 10
ENTRY_TOO_FAR_PCT == 10
MAX_RETRIES == 3
TRAIL_DISTANCE_PCT == 10

Slots == 1..MaxTrades
Symbols == {"X"}
\* The take-profit indices whose orders the model follows: TP1 (breakeven
\* trigger), TP2 (no trigger; TP3 behaves alike) and TP4 (trailing trigger).
TPIdx == {1, 2, 4}
TpPrices == <<11, 12, 13, 14>>

\* Signals the channel can post: three different cores, and one core posted
\* twice with a different message text.
Signals ==
  { [symbol |-> "X", side |-> "buy",  trigger |-> 10, raw |-> "m1"],
    [symbol |-> "X", side |-> "buy",  trigger |-> 10, raw |-> "m2"],
    [symbol |-> "X", side |-> "sell", trigger |-> 10, raw |-> "m1"],
    [symbol |-> "X", side |-> "buy",  trigger |-> 20, raw |-> "m1"] }

signal_hash(sig) == <<sig.symbol, sig.side, sig.trigger, TpPrices>>

utc_day_key(t) == t \div DAY_TICKS
Days == 0..((MaxTime + 1) \div DAY_TICKS)

VARIABLES
  open_trades,    \* slot -> trade record; status "none" = not in open_trades
  trade_history,  \* sequence of archived slots
  daily_counts,   \* day key -> count
  seen,           \* seen_signal_hashes
  tg,             \* Telegram handler: where it stands between critical sections
  nplaced,        \* number of trade ids handed out so far
  now,            \* clock
  exch,           \* slot -> the exchange's view of the trade's orders
  pos,            \* symbol -> TRUE when the position size is nonzero
  hist,           \* slot -> history of what the engine did for the trade
  recent,         \* history: the last SeenCap distinct hashes recorded, oldest first
  disk,           \* the blob as save_state last wrote it to STATE_FILE
  calc,           \* the last call recorded: a pure function's inputs and result, or startup_sync's log
  loops           \* the two background loops: alive or not, and which of them
                  \* caught an exception in its latest tick or event

vars == <<open_trades, trade_history, daily_counts, seen, tg, nplaced, now,
          exch, pos, hist, recent, disk, calc, loops>>

\* The state blob, and save_state(STATE_FILE, state) at the end of a step.
Blob ==
  [open_trades |-> open_trades, trade_history |-> trade_history,
   daily_counts |-> daily_counts, seen |-> seen]

save_state ==
  disk' = [open_trades |-> open_trades', trade_history |-> trade_history',
           daily_counts |-> daily_counts', seen |-> seen']

NoTrade ==
  [ status |-> "none", symbol |-> "X", order_side |-> "Buy", trigger |-> 0,
    placed_ts |-> 0, closed_ts |-> 0, entry_price |-> 0,
    post_orders_placed |-> FALSE, tp1_order_id |-> FALSE, tp_order_ids |-> {},
    tp_fills_list |-> <<>>, tp_fills |-> 0,
    sl_moved_to_be |-> FALSE, trailing_started |-> FALSE ]

NoExch == [ entry |-> "none", symbol |-> "X", tpLive |-> {}, tpFilled |-> {} ]

NoHist ==
  [ slSub |-> 0, tpSub |-> [n \in TPIdx |-> 0], postSize |-> 0,
    postStatus |-> "none", beVia |-> "none", trailVia |-> 0,
    closes |-> 0, cancels |-> 0, pnl |-> 0, archives |-> 0, removed |-> 0,
    archStatus |-> "none", archAge |-> 0,
    acceptedDay |-> -1, storedDay |-> -1, opened |-> 0, sized |-> FALSE ]

Cap2(n) == IF n >= 2 THEN 2 ELSE n + 1

InList(x, s) == \E i \in 1..Len(s) : s[i] = x

\* A cell is what one trade carries through a handler: its record, the
\* exchange's view of its orders, and its history.
Cell(t) == [tr |-> open_trades[t], ex |-> exch[t], h |-> hist[t]]

\* position_size_avg: the exchange's answer for a symbol.
position_size_avg(symbol) == IF pos[symbol] THEN 1 ELSE 0

\* ------------------------------------------------ exchange answers (inputs)
\* How the exchange answers one call of place_post_entry_orders:
\*   rulesOk  instruments_info answered (else _get_instrument_rules raises)
\*   posOk    the position query answered (else it raises)
\*   slOk     set_trading_stop accepted the stop-loss
\*   tpAcc    the take-profit orders the exchange accepted
TPOutcomes == {TPIdx, TPIdx \ {1}, {}}
PPDefault == [rulesOk |-> TRUE, posOk |-> TRUE, slOk |-> TRUE, tpAcc |-> TPIdx]
PPEnvs(sz) ==
  {[PPDefault EXCEPT !.rulesOk = FALSE], [PPDefault EXCEPT !.posOk = FALSE]}
  \cup (IF sz > 0
        THEN {[PPDefault EXCEPT !.slOk = s, !.tpAcc = a] :
                 s \in BOOLEAN, a \in TPOutcomes}
        ELSE {PPDefault})

\* ------------------------------------------------- place_post_entry_orders
NoPositionYet_m(sz) == sz < 0

\* "if size <= 0: ... will retry"
NoPositionYet(sz) == sz <= 0

\* Returns the cell and whether an exception left the call.  h.sized
\* becomes true when a position query made for the trade answers with a
\* nonzero size.
place_post_entry_orders(c, sz, e) ==
  IF ~e.rulesOk \/ ~e.posOk THEN [c |-> c, raised |-> TRUE]
  ELSE IF NoPositionYet(sz) THEN [c |-> c, raised |-> FALSE]
  ELSE IF DRY_RUN THEN
    [c |-> [c EXCEPT !.tr.tp_order_ids = TPIdx, !.tr.tp1_order_id = TRUE,
                     !.tr.post_orders_placed = TRUE, !.h.sized = TRUE,
                     !.h.postSize = sz, !.h.postStatus = c.tr.status],
     raised |-> FALSE]
  ELSE
    [c |-> [c EXCEPT
              !.h.sized = TRUE,
              !.tr.tp_order_ids = @ \cup e.tpAcc,
              !.tr.tp1_order_id = IF 1 \in e.tpAcc THEN TRUE ELSE @,
              !.tr.post_orders_placed = TRUE,
              !.ex.tpLive = @ \cup e.tpAcc,
              !.h.slSub = Cap2(@),
              !.h.tpSub = [n \in TPIdx |-> Cap2(@[n])],
              !.h.postSize = sz,
              !.h.postStatus = c.tr.status],
     raised |-> FALSE]

\* ------------------------------------------------------------ on_execution
\* How the exchange answers inside one TP event: _move_sl / _start_trailing
\*   rulesOk  _get_instrument_rules answered (else it raises out of the handler)
\*   priceOk  last_price answered (else _start_trailing raises)
\*   moveOk   one of the 3 set_trading_stop attempts of _move_sl succeeded
TPEvDefault == [rulesOk |-> TRUE, priceOk |-> TRUE, moveOk |-> TRUE]
TPEnvs ==
  {[TPEvDefault EXCEPT !.rulesOk = FALSE], [TPEvDefault EXCEPT !.priceOk = FALSE],
   [TPEvDefault EXCEPT !.moveOk = FALSE], TPEvDefault}

EntryFillApplies_m(tr) == tr.status \in {"pending", "closed", "expired"}

\* the entry branch fires for a pending trade only
EntryFillApplies(tr) == tr.status = "pending"

\* h.opened counts the calls of telegram_alerts.send_trade_opened
OnEntryFill(c, price, sz, e) ==
  IF EntryFillApplies(c.tr)
  THEN place_post_entry_orders(
         [c EXCEPT !.tr.entry_price = price, !.tr.status = "open",
                   !.h.opened = Cap2(@)], sz, e).c
  ELSE c

IsNewFill_m(tp_num, filled_tps) == TRUE

\* "if tp_num not in filled_tps"
IsNewFill(tp_num, filled_tps) == ~InList(tp_num, filled_tps)

TrackTpFill(tr, tp_num) ==
  IF IsNewFill(tp_num, tr.tp_fills_list)
  THEN LET filled_tps == Append(tr.tp_fills_list, tp_num)
       IN [tr EXCEPT !.tp_fills_list = filled_tps, !.tp_fills = Len(filled_tps)]
  ELSE tr

BeTrigger_m(tr, tp_num) ==
  MOVE_SL_TO_BE_ON_TP1 /\ ~tr.sl_moved_to_be

BeTrigger(tr, tp_num) ==
  MOVE_SL_TO_BE_ON_TP1 /\ tp_num = 1 /\ ~tr.sl_moved_to_be

TrailTrigger_m(tr, tp_num) ==
  TRAIL_ACTIVATE_ON_TP /\ ~tr.trailing_started

TrailTrigger(tr, tp_num) ==
  TRAIL_ACTIVATE_ON_TP /\ tp_num = TRAIL_AFTER_TP_INDEX /\ ~tr.trailing_started

\* The TP branch: track the fill, TP1 -> breakeven, TPn -> trailing.  An
\* exception from _move_sl or _start_trailing leaves the handler with what
\* was written before it.
OnTpFill(c, tp_num, e) ==
  LET c1 == [c EXCEPT !.tr = TrackTpFill(@, tp_num)]
      be == BeTrigger(c1.tr, tp_num)
      c2 == IF be /\ e.rulesOk
            THEN [c1 EXCEPT !.tr.sl_moved_to_be = TRUE,
                            !.h.beVia = IF tp_num = 1 THEN "tp1_event"
                                                      ELSE "other_event"]
            ELSE c1
      raisedBe == be /\ ~e.rulesOk
      tl == TrailTrigger(c2.tr, tp_num)
      raisedTl == tl /\ (~e.rulesOk \/ ~e.priceOk)
      c3 == IF tl /\ ~raisedTl
            THEN [c2 EXCEPT !.tr.trailing_started = TRUE, !.h.trailVia = tp_num]
            ELSE c2
  IN IF raisedBe THEN c1 ELSE c3

\* whether an exception leaves on_execution in the TP branch
OnTpRaises(c, tp_num, e) ==
  LET tr == TrackTpFill(c.tr, tp_num)
  IN \/ BeTrigger(tr, tp_num) /\ ~e.rulesOk
     \/ TrailTrigger(tr, tp_num) /\ (~e.rulesOk \/ ~e.priceOk)

\* ------------------------------------------------------- maintenance sweep
\* How the exchange answers one sweep for one trade:
\*   cancelOk   cancel_order calls succeed (entry cancel; child-order cancels)
\*   closePosOk the position query of cleanup_closed_trades answered
\*   ordersOk   open_orders answered in check_tp_fills_fallback
\*   pricePassed  last_price is at or beyond the TP1 price
\*   fbRulesOk  _get_instrument_rules answered inside the fallback's _move_sl
\*   moveOk     one of the 3 attempts of the fallback's _move_sl succeeded
\*   pollPosOk  the position query of the entry-fill poll answered
\*   pp         the answers to place_post_entry_orders
SwDefault ==
  [cancelOk |-> TRUE, closePosOk |-> TRUE, ordersOk |-> TRUE,
   pricePassed |-> FALSE, fbRulesOk |-> TRUE, moveOk |-> TRUE,
   pollPosOk |-> TRUE, pp |-> PPDefault]

FbEnvs ==
  {[SwDefault EXCEPT !.ordersOk = o, !.pricePassed = p, !.fbRulesOk = r, !.moveOk = m] :
      o \in BOOLEAN, p \in BOOLEAN, r \in BOOLEAN, m \in BOOLEAN}

Expiring(tr) ==
  tr.status = "pending" /\ tr.placed_ts # 0
  /\ now - tr.placed_ts > ENTRY_EXPIRATION_TICKS

\* The answers that can matter to a trade in the state the sweep finds it in.
SweepEnvs(tr) ==
  LET sz == position_size_avg(tr.symbol) IN
  IF Expiring(tr) THEN {[SwDefault EXCEPT !.cancelOk = b] : b \in BOOLEAN}
  ELSE IF tr.status = "pending" THEN
    {[SwDefault EXCEPT !.pollPosOk = FALSE]}
    \cup (IF sz > 0 THEN {[SwDefault EXCEPT !.pp = q] : q \in PPEnvs(sz)}
          ELSE {SwDefault})
  ELSE IF tr.status = "open" /\ sz = 0 THEN
    {[SwDefault EXCEPT !.cancelOk = b] : b \in BOOLEAN}
    \cup (IF tr.post_orders_placed /\ ~tr.sl_moved_to_be
          THEN {[f EXCEPT !.closePosOk = FALSE] : f \in FbEnvs}
          ELSE IF ~tr.post_orders_placed
          THEN {[SwDefault EXCEPT !.closePosOk = FALSE, !.pp = q] : q \in PPEnvs(sz)}
          ELSE {[SwDefault EXCEPT !.closePosOk = FALSE]})
  ELSE IF tr.status = "open" THEN
    IF tr.post_orders_placed /\ ~tr.sl_moved_to_be THEN FbEnvs
    ELSE IF ~tr.post_orders_placed
    THEN {[SwDefault EXCEPT !.pp = q] : q \in PPEnvs(sz)}
    ELSE {SwDefault}
  ELSE {SwDefault}

\* cancel_expired_entries, for one trade
CancelExpiredOne(c, e) ==
  IF Expiring(c.tr)
  THEN [c EXCEPT !.tr.status = "expired",
                 !.ex.entry = IF ~DRY_RUN /\ e.cancelOk /\ @ = "live"
                              THEN "cancelled" ELSE @]
  ELSE c

ClosesNow_m(tr, e) ==
  tr.status \in {"open", "closed"} /\ e.closePosOk /\ position_size_avg(tr.symbol) = 0

\* cleanup_closed_trades, first loop, for one trade
ClosesNow(tr, e) ==
  tr.status = "open" /\ e.closePosOk /\ position_size_avg(tr.symbol) = 0

CleanupOne(c, e) ==
  IF ClosesNow(c.tr, e)
  THEN [c EXCEPT !.tr.status = "closed", !.tr.closed_ts = now,
                 !.ex.tpLive = IF ~DRY_RUN /\ e.cancelOk THEN {} ELSE @,
                 !.h.closes = Cap2(@), !.h.cancels = Cap2(@), !.h.pnl = Cap2(@)]
  ELSE IF c.tr.status = "open" /\ e.closePosOk
  THEN [c EXCEPT !.h.sized = TRUE]
  ELSE c

Prunable_m(tr) ==
  /\ tr.status # "none"
  /\ LET closed_at == IF tr.closed_ts # 0 THEN tr.closed_ts ELSE tr.placed_ts
     IN closed_at < now - RETENTION_TICKS

\* cleanup_closed_trades, second loop: prune closed/expired trades past the
\* retention age
Prunable(tr) ==
  /\ tr.status \in {"closed", "expired"}
  /\ LET closed_at == IF tr.closed_ts # 0 THEN tr.closed_ts ELSE tr.placed_ts
     IN closed_at < now - RETENTION_TICKS

PruneOne(c) ==
  IF Prunable(c.tr)
  THEN [c EXCEPT !.tr = NoTrade, !.h.archives = Cap2(@), !.h.removed = Cap2(@),
                 !.h.archStatus = c.tr.status,
                 !.h.archAge = now - (IF c.tr.closed_ts # 0 THEN c.tr.closed_ts
                                      ELSE c.tr.placed_ts)]
  ELSE c

RECURSIVE ArchivedIn(_, _, _)
\* _archive_trade appends, in the order of the loop
ArchivedIn(cs, t, history) ==
  IF t > MaxTrades THEN history
  ELSE ArchivedIn(cs, t + 1,
                  IF Prunable(cs[t].tr) THEN Append(history, t) ELSE history)

\* check_tp_fills_fallback, for one trade
FallbackEligible(tr) ==
  tr.status = "open" /\ tr.post_orders_placed /\ ~tr.sl_moved_to_be

ShouldMoveToBe_m(c, e) ==
  c.tr.tp1_order_id /\ e.ordersOk /\ 1 \notin c.ex.tpLive

\* "TP1 order no longer open" or "price passed TP1"
ShouldMoveToBe(c, e) ==
  \/ c.tr.tp1_order_id /\ e.ordersOk /\ 1 \notin c.ex.tpLive
  \/ e.pricePassed

FallbackOne(c, e) ==
  IF ~DRY_RUN /\ FallbackEligible(c.tr) /\ ShouldMoveToBe(c, e)
  THEN IF ~e.fbRulesOk THEN [c |-> c, raised |-> TRUE]
       ELSE IF e.moveOk
       THEN [c |-> [c EXCEPT
                      !.tr.sl_moved_to_be = TRUE,
                      !.tr.tp_fills_list =
                          IF InList(1, @) THEN @ ELSE Append(@, 1),
                      !.tr.tp_fills =
                          IF InList(1, c.tr.tp_fills_list) THEN @
                          ELSE Len(c.tr.tp_fills_list) + 1,
                      !.h.beVia =
                          IF c.tr.tp1_order_id /\ e.ordersOk /\ 1 \notin c.ex.tpLive
                          THEN "order_gone"
                          ELSE IF e.pricePassed THEN "price_passed"
                          ELSE "unconfirmed"],
             raised |-> FALSE]
       ELSE [c |-> c, raised |-> FALSE]
  ELSE [c |-> c, raised |-> FALSE]

\* the entry-fill poll and the post-order retry of maintenance_loop, one trade
PollFills(tr) == tr.status = "pending"
NeedsPostOrders_m(tr) == tr.status = "open"
NeedsPostOrders(tr) == tr.status = "open" /\ ~tr.post_orders_placed

PollOne(c, e) ==
  LET sz == position_size_avg(c.tr.symbol)
      c1 == IF PollFills(c.tr) /\ sz > 0
            THEN [c EXCEPT !.tr.status = "open", !.tr.entry_price = c.tr.trigger,
                           !.h.sized = TRUE]
            ELSE c
  IN IF PollFills(c.tr) /\ ~e.pollPosOk THEN [c |-> c, raised |-> TRUE]
     ELSE IF NeedsPostOrders(c1.tr) THEN place_post_entry_orders(c1, sz, e.pp)
     ELSE [c |-> c1, raised |-> FALSE]

\* A loop over the trades that an exception leaves: run(c, e) for slots
\* t, t+1, ... until one raises.
RECURSIVE FallbackLoop(_, _, _)
FallbackLoop(cs, env, t) ==
  IF t > MaxTrades THEN [cs |-> cs, raised |-> FALSE]
  ELSE LET r == FallbackOne(cs[t], env[t])
           cs1 == [cs EXCEPT ![t] = r.c]
       IN IF r.raised THEN [cs |-> cs1, raised |-> TRUE]
          ELSE FallbackLoop(cs1, env, t + 1)

RECURSIVE PollLoop(_, _, _)
PollLoop(cs, env, t) ==
  IF t > MaxTrades THEN [cs |-> cs, raised |-> FALSE]
  ELSE LET r == PollOne(cs[t], env[t])
           cs1 == [cs EXCEPT ![t] = r.c]
       IN IF r.raised THEN [cs |-> cs1, raised |-> TRUE]
          ELSE PollLoop(cs1, env, t + 1)

\* One tick of maintenance_loop under state_lock.  The result carries the
\* cells, the history list and whether an exception ended the tick early.
SweepResult(cs, env) ==
  LET a == [t \in Slots |-> CancelExpiredOne(cs[t], env[t])]
      b == [t \in Slots |-> CleanupOne(a[t], env[t])]
      h == ArchivedIn(b, 1, trade_history)
      c == [t \in Slots |-> PruneOne(b[t])]
      d == FallbackLoop(c, env, 1)
      f == IF d.raised THEN d ELSE PollLoop(d.cs, env, 1)
  IN [cs |-> f.cs, history |-> h, raised |-> f.raised]

\* ------------------------------------------------------ on_telegram_message
Idle == [pc |-> "idle", slot |-> 0, sig |-> CHOOSE g \in Signals : TRUE]

active_trades_count ==
  Cardinality({t \in Slots : open_trades[t].status \in {"pending", "open"}})

trades_today == daily_counts[utc_day_key(now)]

signals_in_window ==
  Cardinality({t \in Slots : /\ open_trades[t].status # "none"
                             /\ open_trades[t].placed_ts >= now - SIGNAL_WINDOW_TICKS})

WithinLimits_m ==
  /\ trades_today < MAX_TRADES_PER_DAY
  /\ signals_in_window < SIGNALS_PER_WINDOW

WithinLimits ==
  /\ active_trades_count < MAX_CONCURRENT_TRADES
  /\ trades_today < MAX_TRADES_PER_DAY
  /\ signals_in_window < SIGNALS_PER_WINDOW

\* "if sh in seen: return"
AlreadySeen(sh) == sh \in seen

\* list(seen)[-500:] of a set: the iteration order of a set of strings is
\* not the insertion order, so when the set is over the cap the element left
\* out is any one of them.
SeenAfter(sh) ==
  LET all == seen \cup {sh}
  IN IF Cardinality(all) > SeenCap
     THEN {all \ {x} : x \in all}
     ELSE {all}

RECURSIVE Without(_, _)
Without(s, x) ==
  IF s = <<>> THEN <<>>
  ELSE IF Head(s) = x THEN Without(Tail(s), x)
  ELSE <<Head(s)>> \o Without(Tail(s), x)

RecentAfter(sh) ==
  LET r == Append(Without(recent, sh), sh)
  IN IF Len(r) > SeenCap THEN Tail(r) ELSE r

\* What the channel posts.  FeedOne: one signal, posted any number of times
\* and with different message texts; FeedAll: every signal.
FeedOne == {g \in Signals : g.side = "buy" /\ g.trigger = 10}
FeedAll == Signals

\* The handler up to and including place_entry_order: the limit checks, the
\* duplicate check and the recording of the hash, then the entry order.
\* placed = FALSE: place_entry_order returned no order id (price too far, or
\* the exchange refused).  At most cap entry orders are followed.
TgReceiveUpTo(sig, placed, cap) ==
  /\ tg.pc = "idle"
  /\ WithinLimits
  /\ ~AlreadySeen(signal_hash(sig))
  /\ seen' \in SeenAfter(signal_hash(sig))
  /\ recent' = RecentAfter(signal_hash(sig))
  /\ IF placed
     THEN /\ nplaced < cap
          /\ nplaced' = nplaced + 1
          /\ exch' = [exch EXCEPT ![nplaced + 1] =
                        [NoExch EXCEPT !.entry = IF DRY_RUN THEN "none" ELSE "live",
                                       !.symbol = sig.symbol]]
          /\ hist' = [hist EXCEPT ![nplaced + 1].acceptedDay = utc_day_key(now)]
          /\ tg' = [pc |-> "store", slot |-> nplaced + 1, sig |-> sig]
     ELSE UNCHANGED <<nplaced, exch, tg, hist>>
  /\ UNCHANGED <<open_trades, trade_history, daily_counts, now, pos, disk, calc, loops>>

TgReceive(sig, placed) == TgReceiveUpTo(sig, placed, TradesFollowed)

\* "Store trade": the record is written unless calc_base_qty raises, which
\* ends the handler.
TgStore(qtyOk) ==
  /\ tg.pc = "store"
  /\ IF qtyOk
     THEN /\ open_trades' = [open_trades EXCEPT ![tg.slot] =
                 [NoTrade EXCEPT !.status = "pending",
                                 !.symbol = tg.sig.symbol,
                                 !.order_side = IF tg.sig.side = "sell" THEN "Sell" ELSE "Buy",
                                 !.trigger = tg.sig.trigger,
                                 !.placed_ts = now]]
          /\ hist' = [hist EXCEPT ![tg.slot].storedDay = utc_day_key(now)]
          /\ tg' = [tg EXCEPT !.pc = "inc"]
     ELSE /\ tg' = Idle
          /\ UNCHANGED <<open_trades, hist>>
  /\ UNCHANGED <<trade_history, daily_counts, seen, nplaced, now, exch, pos, recent, disk, calc, loops>>

\* inc_trades_today and "Save state", then the handler returns
TgInc ==
  /\ tg.pc = "inc"
  /\ daily_counts' = [daily_counts EXCEPT ![utc_day_key(now)] = @ + 1]
  /\ tg' = Idle
  /\ UNCHANGED <<open_trades, trade_history, seen, nplaced, now, exch, pos, hist, recent, calc, loops>>
  /\ save_state

\* ------------------------------------------------------------ the handlers
LoopsRunning == [maintenance |-> "running", ws |-> "running", caught |-> {}]

MaintenanceCatches_m == FALSE

\* maintenance_loop: "except Exception as e" around the body of the tick
MaintenanceCatches == TRUE

\* ws_loop.on_execution: "except Exception as e" around the handling of the
\* event
WsCatches == TRUE

\* What an exception, or none, in one tick or event of a loop leaves of it.
AfterStep(loop, raised, catches) ==
  IF ~raised THEN [loops EXCEPT !.caught = @ \ {loop}]
  ELSE IF catches THEN [loops EXCEPT !.caught = @ \cup {loop}]
  ELSE [loops EXCEPT ![loop] = "dead", !.caught = @ \ {loop}]

Cells == [t \in Slots |-> Cell(t)]

SetCells(cs) ==
  /\ open_trades' = [t \in Slots |-> cs[t].tr]
  /\ exch' = [t \in Slots |-> cs[t].ex]
  /\ hist' = [t \in Slots |-> cs[t].h]

\* ws_loop.on_execution with the entry order's link id
ExecEntry(t) ==
  /\ loops.ws = "running"
  /\ loops' = AfterStep("ws", FALSE, WsCatches)
  /\ exch[t].entry = "filled"
  /\ open_trades[t].status # "none"
  /\ \E e \in (IF EntryFillApplies(open_trades[t])
                THEN PPEnvs(position_size_avg(open_trades[t].symbol))
                ELSE {PPDefault}) :
       SetCells([Cells EXCEPT ![t] =
          OnEntryFill(Cells[t], open_trades[t].trigger,
                      position_size_avg(open_trades[t].symbol), e)])
  /\ UNCHANGED <<trade_history, daily_counts, seen, tg, nplaced, now, pos, recent, calc>>
  /\ save_state

\* ws_loop.on_execution with the link id "<trade id>:TP<n>"
ExecTp(t, n) ==
  /\ loops.ws = "running"
  /\ n \in exch[t].tpFilled
  /\ open_trades[t].status # "none"
  /\ \E e \in (IF BeTrigger(open_trades[t], n) \/ TrailTrigger(open_trades[t], n)
                THEN TPEnvs ELSE {TPEvDefault}) :
       /\ SetCells([Cells EXCEPT ![t] = OnTpFill(Cells[t], n, e)])
       /\ UNCHANGED <<trade_history, daily_counts, seen, tg, nplaced, now, pos, recent, calc>>
       /\ IF OnTpRaises(Cells[t], n, e) THEN UNCHANGED disk ELSE save_state
       /\ loops' = AfterStep("ws", OnTpRaises(Cells[t], n, e), WsCatches)

\* the exchange's answers for every trade of one sweep, as a sequence by slot
RECURSIVE SweepEnvSeqs(_)
SweepEnvSeqs(t) ==
  IF t > MaxTrades THEN {<<>>}
  ELSE {<<e>> \o rest : e \in SweepEnvs(open_trades[t]), rest \in SweepEnvSeqs(t + 1)}

\* one tick of maintenance_loop, with the exchange's answers drawn from envs
SweepOver(envs) ==
  /\ loops.maintenance = "running"
  /\ \E env \in envs :
    /\ UNCHANGED <<daily_counts, seen, tg, nplaced, now, pos, recent, calc>>
    /\ LET r == SweepResult(Cells, env)
       IN /\ SetCells(r.cs)
          /\ trade_history' = r.history
          /\ IF r.raised THEN UNCHANGED disk ELSE save_state
          /\ loops' = AfterStep("maintenance", r.raised, MaintenanceCatches)

Sweep == SweepOver(SweepEnvSeqs(1))

\* ------------------------------------------------------------ environment
\* the exchange fills a resting entry order
FillEntry(t) ==
  /\ exch[t].entry = "live"
  /\ exch' = [exch EXCEPT ![t].entry = "filled"]
  /\ pos' = [pos EXCEPT ![exch[t].symbol] = TRUE]
  /\ UNCHANGED <<open_trades, trade_history, daily_counts, seen, tg, nplaced, now, hist, recent, disk, calc, loops>>

\* the exchange fills a resting take-profit order of an open position
FillTp(t, n) ==
  /\ n \in exch[t].tpLive
  /\ pos[exch[t].symbol]
  /\ exch' = [exch EXCEPT ![t].tpLive = @ \ {n}, ![t].tpFilled = @ \cup {n}]
  /\ UNCHANGED <<open_trades, trade_history, daily_counts, seen, tg, nplaced, now, pos, hist, recent, disk, calc, loops>>

\* the position closes (stop-loss, trailing stop, or by hand)
ClosePosition(s) ==
  /\ pos[s]
  /\ pos' = [pos EXCEPT ![s] = FALSE]
  /\ UNCHANGED <<open_trades, trade_history, daily_counts, seen, tg, nplaced, now, exch, hist, recent, disk, calc, loops>>

Tick ==
  /\ now < MaxTime
  /\ now' = now + 1
  /\ UNCHANGED <<open_trades, trade_history, daily_counts, seen, tg, nplaced, exch, pos, hist, recent, disk, calc, loops>>

\* startup_sync: reads the positions and logs those whose symbol no pending
\* or open trade tracks.  It returns the blob it was given and the symbols it
\* logged as orphaned; a failed position query is caught and logs nothing.
TrackedSymbols(trades) ==
  {trades[t].symbol : t \in {u \in Slots : trades[u].status \in {"pending", "open"}}}

startup_sync_m(blob, posOk) ==
  [state |-> [blob EXCEPT !.open_trades =
                [t \in Slots |->
                   IF blob.open_trades[t].status \in {"pending", "open"}
                      /\ ~pos[blob.open_trades[t].symbol]
                   THEN [blob.open_trades[t] EXCEPT !.status = "closed"]
                   ELSE blob.open_trades[t]]],
   orphaned |-> {}]

startup_sync(blob, posOk) ==
  [state |-> blob,
   orphaned |-> IF DRY_RUN \/ ~posOk THEN {}
                ELSE {s \in Symbols : pos[s]} \ TrackedSymbols(blob.open_trades)]

\* The process dies and is started again: main() loads the blob from
\* STATE_FILE and runs startup_sync before the threads and the signal handler
\* are started.  Orders and positions on the exchange stay as they are.
CrashRestart ==
  \E posOk \in BOOLEAN :
    LET r == startup_sync(disk, posOk) IN
    /\ open_trades' = r.state.open_trades
    /\ trade_history' = r.state.trade_history
    /\ daily_counts' = r.state.daily_counts
    /\ seen' = r.state.seen
    /\ tg' = Idle
    /\ loops' = LoopsRunning
    /\ calc' = [op |-> "startup_sync", orphaned |-> r.orphaned]
    /\ UNCHANGED <<nplaced, now, exch, pos, hist, recent, disk>>

Init ==
  /\ open_trades = [t \in Slots |-> NoTrade]
  /\ trade_history = <<>>
  /\ daily_counts = [d \in Days |-> 0]
  /\ seen = {}
  /\ tg = Idle
  /\ nplaced = 0
  /\ now = 1
  /\ exch = [t \in Slots |-> NoExch]
  /\ pos = [s \in Symbols |-> FALSE]
  /\ hist = [t \in Slots |-> NoHist]
  /\ recent = <<>>
  /\ disk = [open_trades |-> [t \in Slots |-> NoTrade], trade_history |-> <<>>,
             daily_counts |-> [d \in Days |-> 0], seen |-> {}]
  /\ calc = [op |-> "none"]
  /\ loops = LoopsRunning

Next ==
  \/ \E sig \in FeedOne, placed \in BOOLEAN : TgReceive(sig, placed)
  \/ \E qtyOk \in BOOLEAN : TgStore(qtyOk)
  \/ TgInc
  \/ \E t \in Slots : ExecEntry(t)
  \/ \E t \in Slots, n \in TPIdx : ExecTp(t, n)
  \/ Sweep
  \/ \E t \in Slots : FillEntry(t)
  \/ \E t \in Slots, n \in TPIdx : FillTp(t, n)
  \/ \E s \in Symbols : ClosePosition(s)
  \/ Tick

Spec == Init /\ [][Next]_vars

\* Signal intake: every signal of the channel, entries that never fill.
NextSignals ==
  \/ \E sig \in FeedAll, placed \in BOOLEAN : TgReceive(sig, placed)
  \/ \E qtyOk \in BOOLEAN : TgStore(qtyOk)
  \/ TgInc
  \/ Sweep
  \/ Tick

SpecSignals == Init /\ [][NextSignals]_vars

\* Crash and recovery: signal intake, entry fills and the sweep, with the
\* process restarting from the saved blob at any point.
NextCrash ==
  \/ \E sig \in FeedOne, placed \in BOOLEAN : TgReceive(sig, placed)
  \/ \E qtyOk \in BOOLEAN : TgStore(qtyOk)
  \/ TgInc
  \/ \E t \in Slots : ExecEntry(t)
  \/ Sweep
  \/ \E t \in Slots : FillEntry(t)
  \/ \E s \in Symbols : ClosePosition(s)
  \/ Tick
  \/ CrashRestart

SpecCrash == Init /\ [][NextCrash]_vars

\* place_entry_order up to the submission: the last price is read and the
\* order is skipped when it is already too far past the trigger.  The
\* comparison is made in hundredths; the prices offered stay off the exact
\* threshold, where the floating-point product decides.
too_far_m(side, last, trigger) == FALSE

too_far(side, last, trigger) ==
  IF side = "Sell"
  THEN last * 100 <= trigger * (100 - ENTRY_TOO_FAR_PCT)
  ELSE last * 100 >= trigger * (100 + ENTRY_TOO_FAR_PCT)

\* TRUE when an order was submitted and its id returned
place_entry_order(sig, last, accepted) ==
  LET side == IF sig.side = "sell" THEN "Sell" ELSE "Buy"
  IN IF too_far(side, last, sig.trigger) THEN FALSE ELSE accepted

LastPrices == {8, 10, 12}

TgReceiveAt(sig, last, accepted) ==
  TgReceive(sig, place_entry_order(sig, last, accepted))

\* Signal intake with the last price of the symbol drawn at every signal;
\* every order that is submitted is accepted and stored.
NextEntry ==
  \/ \E sig \in FeedAll, last \in LastPrices : TgReceiveAt(sig, last, TRUE)
  \/ TgStore(TRUE)
  \/ TgInc
  \/ Sweep
  \/ Tick

SpecEntry == Init /\ [][NextEntry]_vars

\* The concurrency limit under load: three different signals posted in a
\* fixed order, every entry order accepted and stored, up to MaxTrades entries
\* followed, with entry fills, execution events, sweeps and the clock
\* interleaved.  The exchange answers every call a sweep makes and positions
\* stay open, so a trade leaves the count by expiring.
FeedCores ==
  << [symbol |-> "X", side |-> "buy",  trigger |-> 10, raw |-> "m1"],
     [symbol |-> "X", side |-> "sell", trigger |-> 10, raw |-> "m1"],
     [symbol |-> "X", side |-> "buy",  trigger |-> 20, raw |-> "m1"] >>

NextLimit ==
  \/ nplaced < MaxTrades /\ TgReceiveUpTo(FeedCores[nplaced + 1], TRUE, MaxTrades)
  \/ TgStore(TRUE)
  \/ TgInc
  \/ \E t \in Slots : ExecEntry(t)
  \/ SweepOver({[t \in Slots |-> SwDefault]})
  \/ \E t \in Slots : FillEntry(t)
  \/ Tick

SpecLimit == Init /\ [][NextLimit]_vars

\* Two trades alive at once: a buy and a sell signal, every entry order
\* accepted and stored, entry fills handled by the push event or found by the
\* sweep, no take-profit fills and no clock.
FeedPair == {g \in Signals : g.trigger = 10 /\ g.raw = "m1"}

NextPair ==
  \/ \E sig \in FeedPair : TgReceive(sig, TRUE)
  \/ TgStore(TRUE)
  \/ TgInc
  \/ \E t \in Slots : ExecEntry(t)
  \/ Sweep
  \/ \E t \in Slots : FillEntry(t)

SpecPair == Init /\ [][NextPair]_vars

\* ----------------------------------------------------------- calculations
\* The pure calculations of the engine, each applied to inputs drawn from
\* small sets, one call in a behaviour.  Quantities are whole numbers of a smallest unit; a
\* percentage of a quantity is the exact fraction.
StateUnchanged ==
  UNCHANGED <<open_trades, trade_history, daily_counts, seen, tg, nplaced, now,
              exch, pos, hist, recent, disk, loops>>

TP_SPLITS == <<15, 25, 25, 25>>

\* _floor_to_step(size * (pct / 100.0), step)
FloorPctToStep(size, pct, step) == ((size * pct) \div (100 * step)) * step

RECURSIVE SumSeq(_)
SumSeq(q) == IF q = <<>> THEN 0 ELSE Head(q) + SumSeq(Tail(q))

\* "Normal flow: place individual TPs", from split idx on, with the
\* percentage of the splits skipped so far
RECURSIVE SplitOrders(_, _, _, _, _, _)
SplitOrders(idx, accumulated_pct, size, qty_step, min_qty, tp_to_place) ==
  IF idx > tp_to_place THEN <<>>
  ELSE LET pct == TP_SPLITS[idx]
           qty == FloorPctToStep(size, pct, qty_step)
       IN IF qty < min_qty
          THEN SplitOrders(idx + 1, accumulated_pct + pct, size, qty_step,
                           min_qty, tp_to_place)
          ELSE LET extra_qty == FloorPctToStep(size, accumulated_pct, qty_step)
                   q == IF accumulated_pct > 0
                        THEN ((qty + extra_qty) \div qty_step) * qty_step
                        ELSE qty
               IN <<[idx |-> idx, qty |-> q]>>
                  \o SplitOrders(idx + 1, 0, size, qty_step, min_qty, tp_to_place)

\* The TP orders place_post_entry_orders builds for a position of the given
\* size when the trade has ntp target prices: link id TP<idx> and quantity.
tp_orders(size, qty_step, min_qty, ntp) ==
  LET tp_to_place == IF ntp < Len(TP_SPLITS) THEN ntp ELSE Len(TP_SPLITS)
      splits_sum == SumSeq(SubSeq(TP_SPLITS, 1, tp_to_place))
      remaining_qty == FloorPctToStep(size, splits_sum, qty_step)
      tp_qty == FloorPctToStep(size, 90, qty_step)
  IN IF remaining_qty < min_qty
     THEN IF tp_qty >= min_qty THEN <<[idx |-> 1, qty |-> tp_qty]>> ELSE <<>>
     ELSE SplitOrders(1, 0, size, qty_step, min_qty, tp_to_place)

CalcTpSplit ==
  /\ calc.op = "none"
  /\ \E size \in 1..MaxSize, qty_step \in 1..MaxStep, min_qty \in 1..MaxMinQty,
        ntp \in 1..Len(TP_SPLITS) :
       calc' = [op |-> "tp_split", size |-> size, qty_step |-> qty_step,
                min_qty |-> min_qty, ntp |-> ntp,
                orders |-> tp_orders(size, qty_step, min_qty, ntp)]
  /\ StateUnchanged

\* _find_swing_point.  Prices are whole numbers; a stop price is carried in
\* hundredths (sl100 = 100 * price) so that the percentages are exact.
\* Candles the exchange can return, and the sequences of them up to a length.
Candles ==
  { [low |-> 99, high |-> 101], [low |-> 95, high |-> 105],
    [low |-> 80, high |-> 120] }

RECURSIVE SeqsUpTo(_)
SeqsUpTo(n) ==
  IF n = 0 THEN {<<>>}
  ELSE LET shorter == SeqsUpTo(n - 1)
       IN shorter \cup {Append(q, c) : q \in {r \in shorter : Len(r) = n - 1},
                                       c \in Candles}

MinOf(S) == CHOOSE x \in S : \A y \in S : x <= y
MaxOf(S) == CHOOSE x \in S : \A y \in S : x >= y

\* the swing point with its buffer, in hundredths
SwingSl100(side, candles) ==
  IF side = "Buy"
  THEN MinOf({candles[i].low : i \in 1..Len(candles)}) * (100 - SL_BUFFER_PCT)
  ELSE MaxOf({candles[i].high : i \in 1..Len(candles)}) * (100 + SL_BUFFER_PCT)

\* distance_pct * entry_price: the distance of a stop from entry, on the
\* loss side, in hundredths
Distance100(side, entry_price, sl100) ==
  IF side = "Buy" THEN entry_price * 100 - sl100 ELSE sl100 - entry_price * 100

\* the stop at pct percent from entry on the loss side, in hundredths
SlAtPct100(side, entry_price, pct) ==
  IF side = "Buy" THEN entry_price * (100 - pct) ELSE entry_price * (100 + pct)

TooClose_m(distance100, entry_price) == FALSE

\* "if distance_pct < SL_MIN_PCT"
TooClose(distance100, entry_price) == distance100 < SL_MIN_PCT * entry_price

\* "elif distance_pct > SL_MAX_PCT"
TooFar(distance100, entry_price) == distance100 > SL_MAX_PCT * entry_price

NoSwing == [found |-> FALSE, sl100 |-> 0]

find_swing_point(side, entry_price, candles, fetchOk) ==
  IF ~fetchOk THEN NoSwing
  ELSE IF Len(candles) < 5 THEN NoSwing
  ELSE LET sl100 == SwingSl100(side, candles)
           distance100 == Distance100(side, entry_price, sl100)
       IN [found |-> TRUE,
           sl100 |-> IF TooClose(distance100, entry_price)
                     THEN SlAtPct100(side, entry_price, SL_MIN_PCT)
                     ELSE IF TooFar(distance100, entry_price)
                     THEN SlAtPct100(side, entry_price, SL_MAX_PCT)
                     ELSE sl100]

CalcSwing ==
  /\ calc.op = "none"
  /\ \E side \in {"Buy", "Sell"}, entry_price \in {90, 100, 110},
        candles \in SeqsUpTo(MaxCandles), fetchOk \in BOOLEAN :
       calc' = [op |-> "swing", side |-> side, entry_price |-> entry_price,
                candles |-> candles, fetchOk |-> fetchOk,
                result |-> find_swing_point(side, entry_price, candles, fetchOk)]
  /\ StateUnchanged

\* _determine_exit_reason.  PnL is counted in tenths of the quote currency.
PnlValues == {-15, -5, 0, 5, 15}

Abs(x) == IF x < 0 THEN -x ELSE x

AllTpsHit_m(tp_fills, tp_count) == tp_fills > tp_count

\* "elif tp_fills >= tp_count"
AllTpsHit(tp_fills, tp_count) == tp_fills >= tp_count

determine_exit_reason(trailing_started, sl_moved_to_be, tp_fills, tp_count, pnl) ==
  IF trailing_started /\ pnl # 0 /\ pnl > 0
  THEN [name |-> "trailing_stop", tp |-> 0]
  ELSE IF AllTpsHit(tp_fills, tp_count)
  THEN [name |-> "all_tps_hit", tp |-> 0]
  ELSE IF tp_fills > 0 /\ sl_moved_to_be /\ Abs(pnl) < BE_PNL_TENTHS
  THEN [name |-> "breakeven", tp |-> 0]
  ELSE IF tp_fills > 0
  THEN [name |-> "tp_then_sl", tp |-> tp_fills]
  ELSE IF pnl # 0 /\ pnl < 0
  THEN [name |-> "stop_loss", tp |-> 0]
  ELSE [name |-> "unknown", tp |-> 0]

CalcExit ==
  /\ calc.op = "none"
  /\ \E trailing_started \in BOOLEAN, sl_moved_to_be \in BOOLEAN,
        tp_fills \in 0..MaxTps, tp_count \in 0..MaxTps, pnl \in PnlValues :
       calc' = [op |-> "exit", trailing_started |-> trailing_started,
                sl_moved_to_be |-> sl_moved_to_be, tp_fills |-> tp_fills,
                tp_count |-> tp_count, pnl |-> pnl,
                result |-> determine_exit_reason(trailing_started, sl_moved_to_be,
                                                 tp_fills, tp_count, pnl)]
  /\ StateUnchanged

\* _move_sl.  answers[i] is whether the exchange accepts the i-th call of
\* set_trading_stop, were it made; the result carries the number of calls
\* made and how the function was left.
MoreAttempts_m(attempt, max_retries) == attempt < max_retries - 2

\* "if attempt < max_retries - 1": warn, sleep and go round again
MoreAttempts(attempt, max_retries) == attempt < max_retries - 1

\* "for attempt in range(max_retries)", from the given attempt on
RECURSIVE MoveSlAttempts(_, _, _)
MoveSlAttempts(attempt, answers, max_retries) ==
  IF attempt >= max_retries THEN [calls |-> attempt, result |-> "false"]
  ELSE IF answers[attempt + 1] THEN [calls |-> attempt + 1, result |-> "true"]
  ELSE IF MoreAttempts(attempt, max_retries)
  THEN MoveSlAttempts(attempt + 1, answers, max_retries)
  ELSE [calls |-> attempt + 1, result |-> "false"]

move_sl(rulesOk, answers, max_retries) ==
  IF ~rulesOk THEN [calls |-> 0, result |-> "raised"]
  ELSE IF DRY_RUN THEN [calls |-> 0, result |-> "true"]
  ELSE MoveSlAttempts(0, answers, max_retries)

CalcMoveSl ==
  /\ calc.op = "none"
  /\ \E rulesOk \in BOOLEAN, answers \in [1..MAX_RETRIES -> BOOLEAN] :
       calc' = [op |-> "move_sl", rulesOk |-> rulesOk, answers |-> answers,
                result |-> move_sl(rulesOk, answers, MAX_RETRIES)]
  /\ StateUnchanged

\* _start_trailing.  Prices are whole numbers of a smallest unit, a tick size
\* is a positive whole number of these units, and a field the request body
\* does not carry is Absent.
Absent == -1

\* round(x) of Python for x = num / den: to the nearest whole number, a tie
\* to the even one
RoundDiv(num, den) ==
  LET q == num \div den
      r == num % den
  IN IF 2 * r < den THEN q
     ELSE IF 2 * r > den THEN q + 1
     ELSE IF q % 2 = 0 THEN q ELSE q + 1

\* _round_price(num / den, tick_size), tick_size > 0
round_price(num, den, tick_size) == RoundDiv(num, den * tick_size) * tick_size

\* "tr.get('entry_price') or tr.get('trigger')"; 0 is no entry price recorded
BePrice(entry_price, trigger) == IF entry_price # 0 THEN entry_price ELSE trigger

KeepsBreakeven_m(sl_moved_to_be) == FALSE

\* "if tr.get('sl_moved_to_be')": keep SL at BE if already moved
KeepsBreakeven(sl_moved_to_be) == sl_moved_to_be

\* The body of the trailing-stop request and what became of it: raised (the
\* rules or the price could not be read, no request), else called (the
\* request was made) and accepted (the exchange took it).
start_trailing(side, sl_moved_to_be, entry_price, trigger, tp_prices, tp_num, current_price, tick_size, rulesOk, priceOk, setOk) ==
  IF ~rulesOk \/ ~priceOk
  THEN [raised |-> TRUE, called |-> FALSE, accepted |-> FALSE,
        body |-> [trailingStop |-> Absent, activePrice |-> Absent,
                  stopLoss |-> Absent]]
  ELSE LET anchor == round_price(IF Len(tp_prices) < tp_num THEN current_price
                                 ELSE tp_prices[tp_num], 1, tick_size)
           dist == round_price(anchor * TRAIL_DISTANCE_PCT, 100, tick_size)
           reached == IF side = "Sell" THEN ~(anchor < current_price)
                      ELSE ~(anchor > current_price)
       IN [raised |-> FALSE, called |-> ~DRY_RUN,
           accepted |-> ~DRY_RUN /\ setOk,
           body |-> [trailingStop |-> dist,
                     activePrice |-> IF reached THEN Absent ELSE anchor,
                     stopLoss |-> IF KeepsBreakeven(sl_moved_to_be)
                                  THEN round_price(BePrice(entry_price, trigger),
                                                   1, tick_size)
                                  ELSE Absent]]

CalcTrailing ==
  /\ calc.op = "none"
  /\ \E side \in {"Buy", "Sell"}, sl_moved_to_be \in BOOLEAN,
        entry_price \in {0, 9, 10}, tp_prices \in {<<>>, TpPrices},
        current_price \in {13, 15}, tick_size \in 1..MaxTick,
        rulesOk \in BOOLEAN, priceOk \in BOOLEAN, setOk \in BOOLEAN :
       calc' = [op |-> "trailing", side |-> side,
                sl_moved_to_be |-> sl_moved_to_be, entry_price |-> entry_price,
                trigger |-> 10, tp_prices |-> tp_prices,
                current_price |-> current_price, tick_size |-> tick_size,
                result |-> start_trailing(side, sl_moved_to_be, entry_price, 10,
                                          tp_prices, TRAIL_AFTER_TP_INDEX,
                                          current_price, tick_size,
                                          rulesOk, priceOk, setOk)]
  /\ StateUnchanged

\* _cancel_all_trade_orders.  A trade id is the text
\* "<symbol>|<side>|<second>" and is written here as the sequence of its
\* parts, the second digit by digit; the link id of the n-th take-profit
\* order is the id followed by ":TP<n>", that of the entry order the id alone.
TradeSeconds == {<<"1">>, <<"1", "0">>, <<"2">>}

TradeIds ==
  {<<"X", "|", side, "|">> \o sec : side \in {"buy", "sell"}, sec \in TradeSeconds}

TpTags == {"1", "2"}

TpLinkId(trade_id, n) == trade_id \o <<":", "TP", n>>

\* the orders a trade can have resting on the exchange
OrdersOf(trade_id) ==
  {[owner |-> trade_id, kind |-> "entry", orderLinkId |-> trade_id]}
    \cup {[owner |-> trade_id, kind |-> "tp", orderLinkId |-> TpLinkId(trade_id, n)]
            : n \in TpTags}

\* str.startswith
StartsWith(str, prefix) ==
  Len(str) >= Len(prefix) /\ SubSeq(str, 1, Len(prefix)) = prefix

IsOrderOfTrade_m(link_id, trade_id) == StartsWith(link_id, trade_id)

\* link_id.startswith(trade_id + ":")
IsOrderOfTrade(link_id, trade_id) == StartsWith(link_id, trade_id \o <<":">>)

\* The orders cancelled: none in a dry run or when open_orders raises;
\* otherwise every matching open order whose cancel_order does not raise.
cancel_all_trade_orders(trade_id, open_orders, openOk, refused) ==
  IF DRY_RUN \/ ~openOk THEN {}
  ELSE {o \in open_orders : IsOrderOfTrade(o.orderLinkId, trade_id)} \ refused

\* a trade closes while another trade on the same symbol has orders resting
CalcCancel ==
  /\ calc.op = "none"
  /\ \E trade_id \in TradeIds, other \in TradeIds, openOk \in BOOLEAN :
       /\ other # trade_id
       /\ \E open_orders \in SUBSET (OrdersOf(trade_id) \cup OrdersOf(other)) :
            \E refused \in {{}} \cup {{o} : o \in open_orders} :
              calc' = [op |-> "cancel", trade_id |-> trade_id, other |-> other,
                       open_orders |-> open_orders, openOk |-> openOk,
                       cancelled |-> cancel_all_trade_orders(trade_id, open_orders,
                                                             openOk, refused)]
  /\ StateUnchanged

NextCalc ==
  \/ CalcTpSplit
  \/ CalcSwing
  \/ CalcExit
  \/ CalcMoveSl
  \/ CalcTrailing
  \/ CalcCancel

SpecCalc == Init /\ [][NextCalc]_vars

\* ------------------------------------------- placement of the exit orders
\* The parallel branch of place_post_entry_orders, step by step: task 0 is
\* set_sl, task n is place_order of the n-th take-profit order.  The calling
\* thread submits the tasks to a pool of MAX_WORKERS threads, waits for the
\* stop-loss, collects the take-profit results as they complete and leaves
\* the "with" block, which waits for the pool, before it sets
\* post_orders_placed.  calc holds the state of the call.
MAX_WORKERS == 5

PostTasks(ntp) == 0..ntp

\* the order of the executor.submit calls
SubmitOrder(ntp) == [i \in 1..(ntp + 1) |-> i - 1]

Finished(task) == calc.run[task] \in {"ok", "failed"}

ReadyToExit_m == TRUE

\* as_completed has yielded every take-profit future, and the executor's
\* shutdown(wait=True) has seen every task end
ReadyToExit ==
  /\ calc.collected = 1..calc.ntp
  /\ \A task \in PostTasks(calc.ntp) : Finished(task)

PostStart(ntp) ==
  /\ calc.op = "none"
  /\ calc' = [op |-> "post", ntp |-> ntp, pc |-> "submit", submitted |-> <<>>,
              run |-> [task \in PostTasks(ntp) |-> "none"],
              taken |-> <<>>, collected |-> {}, tp_order_ids |-> {},
              sl_logged |-> "none", post_orders_placed |-> FALSE]
  /\ StateUnchanged

\* executor.submit(set_sl), then executor.submit(place_order, o) for each o
PostSubmit ==
  /\ calc.op = "post" /\ calc.pc = "submit"
  /\ LET k == Len(calc.submitted) + 1
         task == SubmitOrder(calc.ntp)[k]
     IN calc' = [calc EXCEPT !.submitted = Append(@, task),
                             !.run[task] = "queued",
                             !.pc = IF k = calc.ntp + 1 THEN "sl_result" ELSE "submit"]
  /\ StateUnchanged

\* a free worker takes the oldest queued task off the pool's queue
WorkerStart(task) ==
  /\ calc.op = "post" /\ task \in PostTasks(calc.ntp)
  /\ calc.run[task] = "queued"
  /\ \A i \in 1..Len(calc.submitted) :
       calc.run[calc.submitted[i]] = "queued" => calc.submitted[i] >= task
  /\ Cardinality({u \in PostTasks(calc.ntp) : calc.run[u] = "running"}) < MAX_WORKERS
  /\ calc' = [calc EXCEPT !.run[task] = "running", !.taken = Append(@, task)]
  /\ StateUnchanged

\* the request of a running task is answered, or raises
WorkerFinish(task, ok) ==
  /\ calc.op = "post" /\ task \in PostTasks(calc.ntp)
  /\ calc.run[task] = "running"
  /\ calc' = [calc EXCEPT !.run[task] = IF ok THEN "ok" ELSE "failed"]
  /\ StateUnchanged

\* sl_future.result() inside try/except
PostSlResult ==
  /\ calc.op = "post" /\ calc.pc = "sl_result"
  /\ Finished(0)
  /\ calc' = [calc EXCEPT !.sl_logged = calc.run[0], !.pc = "collect"]
  /\ StateUnchanged

\* one turn of "for future in as_completed(order_futures)", result in try/except
PostCollect(task) ==
  /\ calc.op = "post" /\ calc.pc = "collect"
  /\ task \in (1..calc.ntp) \ calc.collected
  /\ Finished(task)
  /\ calc' = [calc EXCEPT !.collected = @ \cup {task},
                          !.tp_order_ids = IF calc.run[task] = "ok"
                                           THEN @ \cup {task} ELSE @]
  /\ StateUnchanged

\* the end of the "with" block, then trade["post_orders_placed"] = True
PostExit ==
  /\ calc.op = "post" /\ calc.pc = "collect"
  /\ ReadyToExit
  /\ calc' = [calc EXCEPT !.pc = "done", !.post_orders_placed = TRUE]
  /\ StateUnchanged

NextPost ==
  \/ \E ntp \in 1..MaxTps : PostStart(ntp)
  \/ PostSubmit
  \/ \E task \in 0..MaxTps : WorkerStart(task)
  \/ \E task \in 0..MaxTps, ok \in BOOLEAN : WorkerFinish(task, ok)
  \/ PostSlResult
  \/ \E task \in 1..MaxTps : PostCollect(task)
  \/ PostExit

SpecPost == Init /\ [][NextPost]_vars

\* -------------------------------------------------------------- state_lock
\* The three threads and state_lock = threading.Lock(), which is not
\* reentrant.  The code of a thread is the sequence of its sections; a section
\* is TRUE when it runs under "with state_lock" and FALSE when it runs
\* without the lock.
\*   telegram (on_telegram_message): active_trades_count, trades_today,
\*     signals_in_window, the duplicate check, place_entry_order (no lock),
\*     "Store trade", inc_trades_today, "Save state";
\*   maintenance (one tick): the heartbeat's active_trades_count and
\*     trades_today, then the maintenance tasks;
\*   ws (one execution event): on_execution and save_state.
Threads == {"telegram", "maintenance", "ws"}

Sections(th) ==
  CASE th = "telegram" -> <<TRUE, TRUE, TRUE, TRUE, FALSE, TRUE, TRUE, TRUE>>
    [] th = "maintenance" -> <<TRUE, TRUE, TRUE>>
    [] th = "ws" -> <<TRUE>>

NestedAcquire_m(th, k) == th = "maintenance" /\ k = 3

\* TRUE when the body of section k of th calls a function that takes
\* state_lock itself: none does (the heartbeat's calls are made before the
\* "with" of the maintenance tasks, calc_base_qty and the engine take no lock)
NestedAcquire(th, k) == FALSE

\* the threads are started
LockStart ==
  /\ calc.op = "none"
  /\ calc' = [op |-> "lock", holder |-> "none",
              pc |-> [th \in Threads |-> 1],
              phase |-> [th \in Threads |-> "out"],
              raised |-> {}]
  /\ StateUnchanged

\* the heartbeat is due only every HEARTBEAT_INTERVAL seconds
SkipHeartbeat ==
  /\ calc.op = "lock"
  /\ calc.pc["maintenance"] = 1 /\ calc.phase["maintenance"] = "out"
  /\ calc' = [calc EXCEPT !.pc["maintenance"] = 3]
  /\ StateUnchanged

\* th reaches its next section: "with state_lock:", or code without the lock
Enter(th) ==
  /\ calc.op = "lock" /\ calc.phase[th] = "out"
  /\ calc' = [calc EXCEPT !.phase[th] =
                 IF Sections(th)[calc.pc[th]] THEN "want" ELSE "in"]
  /\ StateUnchanged

\* state_lock.acquire(): granted only when no thread holds the lock
Acquire(th) ==
  /\ calc.op = "lock" /\ calc.phase[th] = "want"
  /\ calc.holder = "none"
  /\ calc' = [calc EXCEPT !.holder = th, !.phase[th] = "in"]
  /\ StateUnchanged

\* th runs the body of the section.  A body that called a function taking
\* the lock would wait for the lock it holds.  Otherwise th leaves the
\* section: it falls through to the next one, returns from the handler or
\* tick, or an exception leaves the section; "with" releases the lock on each
\* of these paths.
Leave(th, outcome) ==
  /\ calc.op = "lock" /\ calc.phase[th] = "in"
  /\ LET k == calc.pc[th]
     IN IF Sections(th)[k] /\ NestedAcquire(th, k)
        THEN calc' = [calc EXCEPT !.phase[th] = "want"]
        ELSE calc' = [calc EXCEPT
                        !.holder = IF Sections(th)[k] THEN "none" ELSE @,
                        !.phase[th] = "out",
                        !.pc[th] = IF outcome = "next" /\ k < Len(Sections(th))
                                   THEN k + 1 ELSE 1,
                        !.raised = IF outcome = "raise"
                                   THEN @ \cup {th} ELSE @ \ {th}]
  /\ StateUnchanged

NextLock ==
  \/ LockStart
  \/ SkipHeartbeat
  \/ \E th \in Threads : Enter(th)
  \/ \E th \in Threads : Acquire(th)
  \/ \E th \in Threads, outcome \in {"next", "return", "raise"} : Leave(th, outcome)

SpecLock == Init /\ [][NextLock]_vars

\* ================================================================ claims
Forward ==
  {<<"pending", "open">>, <<"pending", "expired">>, <<"open", "closed">>}

\* C1: the status of a trade record only moves pending -> open,
\* pending -> expired or open -> closed.  A record that leaves open_trades
\* had, when it was archived, a status it could legally hold.
StatusOnlyForward ==
  [][\A t \in Slots :
       LET a == open_trades[t].status
           b == open_trades'[t].status
       IN \/ a = b
          \/ a = "none" /\ b = "pending"
          \/ <<a, b>> \in Forward
          \/ /\ a # "none" /\ b = "none"
             /\ \/ hist'[t].archStatus = a
                \/ <<a, hist'[t].archStatus>> \in Forward]_vars

ClosedTradeWithFilledEntry ==
  \E t \in Slots : open_trades[t].status = "closed" /\ exch[t].entry = "filled"

\* The fields of a trade record that idempotence is about.
ExecFields(tr) ==
  <<tr.status, tr.entry_price, tr.tp_fills_list, tr.tp_fills,
    tr.post_orders_placed, tr.sl_moved_to_be, tr.trailing_started>>

\* C2: for every execution event the exchange can deliver, handling it twice
\* leaves the trade record as handling it once does.
ExecutionIdempotent ==
  \A t \in Slots :
    open_trades[t].status # "none" =>
      LET sz == position_size_avg(open_trades[t].symbol)
          px == open_trades[t].trigger
      IN /\ exch[t].entry = "filled" =>
              \A e1 \in PPEnvs(sz), e2 \in PPEnvs(sz) :
                 LET once == OnEntryFill(Cell(t), px, sz, e1)
                 IN ExecFields(OnEntryFill(once, px, sz, e2).tr) = ExecFields(once.tr)
         /\ \A n \in exch[t].tpFilled :
              \A e1 \in TPEnvs, e2 \in TPEnvs :
                 LET once == OnTpFill(Cell(t), n, e1)
                 IN ExecFields(OnTpFill(once, n, e2).tr) = ExecFields(once.tr)

\* C3: the initial stop-loss update and each take-profit order of a trade
\* are submitted at most once, and a trade whose orders were submitted
\* carries post_orders_placed.
ProtectiveOrdersOnce ==
  \A t \in Slots :
    /\ hist[t].slSub <= 1
    /\ \A n \in TPIdx : hist[t].tpSub[n] <= 1
    /\ (hist[t].slSub >= 1 /\ open_trades[t].status # "none")
          => open_trades[t].post_orders_placed

OpenTradeWithOrdersSubmitted ==
  \E t \in Slots :
    /\ open_trades[t].status = "open" /\ open_trades[t].post_orders_placed
    /\ hist[t].slSub = 1 /\ hist[t].tpSub[1] = 1

\* C4: post_orders_placed never goes back to false while the record lives,
\* and the step that sets it leaves the trade open and had a position query
\* that answered a size above zero.
PostOrdersFlagOnce ==
  [][\A t \in Slots :
       /\ (open_trades[t].post_orders_placed /\ open_trades'[t].status # "none")
             => open_trades'[t].post_orders_placed
       /\ (~open_trades[t].post_orders_placed /\ open_trades'[t].post_orders_placed)
             => /\ open_trades'[t].status = "open"
                /\ hist'[t].postStatus = "open"
                /\ hist'[t].postSize > 0]_vars

PostOrdersPlacedOnPosition ==
  \E t \in Slots : open_trades[t].post_orders_placed /\ hist[t].postSize > 0

CountIn(seq, x) == Cardinality({i \in 1..Len(seq) : seq[i] = x})

\* C5: a trade is closed once: one open -> closed transition, one
\* cancellation pass, one PnL fetch, and one archive entry with the removal
\* from open_trades, however often the sweep sees size zero afterwards.
ClosureEffectsOnce ==
  \A t \in Slots :
    /\ hist[t].closes <= 1
    /\ hist[t].cancels = hist[t].closes
    /\ hist[t].pnl = hist[t].closes
    /\ hist[t].archives <= 1
    /\ hist[t].removed = hist[t].archives
    /\ CountIn(trade_history, t) = hist[t].archives
    /\ open_trades[t].status = "closed" => hist[t].closes = 1
    /\ hist[t].archives = 1 => open_trades[t].status = "none"

ClosedTradeArchivedAndRemoved ==
  \E t \in Slots :
    /\ hist[t].closes = 1 /\ hist[t].archives = 1
    /\ open_trades[t].status = "none" /\ trade_history = <<t>>
    /\ ~pos[exch[t].symbol]

\* C6: sl_moved_to_be never goes back to false while the record lives, and
\* the step that sets it handled a TP1 fill event or was the fallback finding
\* the TP1 order gone or the price past TP1.
BreakevenOnlyAfterTp1 ==
  [][\A t \in Slots :
       /\ (open_trades[t].sl_moved_to_be /\ open_trades'[t].status # "none")
             => open_trades'[t].sl_moved_to_be
       /\ (~open_trades[t].sl_moved_to_be /\ open_trades'[t].sl_moved_to_be)
             => hist'[t].beVia \in {"tp1_event", "order_gone", "price_passed"}]_vars

BreakevenByFallback ==
  \E t \in Slots : open_trades[t].sl_moved_to_be /\ hist[t].beVia = "order_gone"

\* C7: trailing_started never goes back to false while the record lives, and
\* the step that sets it handled the fill event of TP number
\* TRAIL_AFTER_TP_INDEX.
TrailingOnlyAfterTriggerTp ==
  [][\A t \in Slots :
       /\ (open_trades[t].trailing_started /\ open_trades'[t].status # "none")
             => open_trades'[t].trailing_started
       /\ (~open_trades[t].trailing_started /\ open_trades'[t].trailing_started)
             => /\ hist'[t].trailVia = TRAIL_AFTER_TP_INDEX
                /\ InList(TRAIL_AFTER_TP_INDEX, open_trades'[t].tp_fills_list)]_vars

TrailingStarted ==
  \E t \in Slots : open_trades[t].trailing_started /\ hist[t].trailVia = TRAIL_AFTER_TP_INDEX

\* C8: tp_fills_list holds every TP index at most once and tp_fills is its
\* length.
TpFillsDistinct ==
  \A t \in Slots :
    LET l == open_trades[t].tp_fills_list
    IN /\ \A i \in 1..Len(l), j \in 1..Len(l) : l[i] = l[j] => i = j
       /\ open_trades[t].tp_fills = Len(l)

PushAndFallbackFills ==
  \E t \in Slots :
    /\ Len(open_trades[t].tp_fills_list) >= 2
    /\ hist[t].beVia \in {"order_gone", "price_passed"}

\* C9: a record leaves open_trades only together with one archive entry, and
\* only with status closed or expired and a reference timestamp older than
\* the retention age.
ArchiveOnlyFinishedAndOld ==
  [][\A t \in Slots :
       ( \/ open_trades[t].status # "none" /\ open_trades'[t].status = "none"
         \/ hist'[t].archives # hist[t].archives
         \/ CountIn(trade_history', t) # CountIn(trade_history, t) )
       => /\ open_trades[t].status # "none" /\ open_trades'[t].status = "none"
          /\ hist'[t].archives = hist[t].archives + 1
          /\ CountIn(trade_history', t) = CountIn(trade_history, t) + 1
          /\ hist'[t].archStatus \in {"closed", "expired"}
          /\ hist'[t].archAge > RETENTION_TICKS]_vars

ExpiredTradeArchived ==
  \E t \in Slots : hist[t].archives = 1 /\ hist[t].archStatus = "expired"

SeqSet(q) == {q[i] : i \in 1..Len(q)}

\* C10: a signal whose hash is among the last SeenCap distinct hashes
\* recorded (fewer than SeenCap others since) is rejected: the handler
\* records nothing and places no entry order for it.
RecentDuplicateRejected ==
  \A sig \in FeedAll :
    signal_hash(sig) \in SeqSet(recent) =>
      \A placed \in BOOLEAN : ~ENABLED TgReceive(sig, placed)

\* C11: seen_signal_hashes never holds more than SeenCap hashes, and what it
\* holds is the most recently recorded ones: every eviction so far removed
\* the hash recorded earliest.
SeenKeepsMostRecent ==
  /\ Cardinality(seen) <= SeenCap
  /\ seen = SeqSet(recent)

\* C12: once the Telegram handler has returned, the count of every UTC day
\* is the number of trades stored in open_trades on that day, which is the
\* number of entry orders accepted on that day.
DailyCountIsTradesOfDay ==
  tg.pc = "idle" =>
    \A d \in Days :
      /\ daily_counts[d] = Cardinality({t \in Slots : hist[t].storedDay = d})
      /\ daily_counts[d] = Cardinality({t \in Slots : hist[t].acceptedDay = d})

\* C13: from the limit checks of on_telegram_message to its daily-count
\* increment, no other thread changes open_trades, daily_counts or
\* seen_signal_hashes: while the handler stands between its reads and the
\* writes that depend on them, a step of another thread leaves them alone.
TelegramSequenceUninterrupted ==
  [][(tg.pc # "idle" /\ tg'.pc = tg.pc)
        => UNCHANGED <<open_trades, daily_counts, seen>>]_vars

\* C14: whenever no handler is running, the blob on disk is the blob in
\* memory: every handler that changed the blob saved it before it returned.
EveryMutationSaved == tg.pc = "idle" => disk = Blob

RECURSIVE SumUpTo(_, _)
SumUpTo(counts, d) == IF d < 0 THEN 0 ELSE counts[d] + SumUpTo(counts, d - 1)

\* C15: the blob on disk never holds a stored trade without its daily-count
\* increment: the counts on disk add up to the trades on disk, those in
\* open_trades and those archived to trade_history.
SavedBlobNotTorn ==
  SumUpTo(disk.daily_counts, (MaxTime + 1) \div DAY_TICKS)
    = Cardinality({t \in Slots : disk.open_trades[t].status # "none"})
      + Len(disk.trade_history)

\* an entry order that is live, or has filled into a position still open
InFlight(t) ==
  \/ exch[t].entry = "live"
  \/ exch[t].entry = "filled" /\ pos[exch[t].symbol]

\* C16: after a crash at any point and the restart from the saved blob,
\* every entry order that is live or has filled into an open position has
\* its trade record in the loaded open_trades.
RestartTracksEntryOrders ==
  [][CrashRestart =>
       \A t \in Slots : InFlight(t) => open_trades'[t].status # "none"]_vars

\* C17: with all four splits, when 90% of the size floored to the step is
\* below the minimum quantity there is at most one TP order, of that 90%
\* quantity; otherwise there is one order for each split whose floored
\* quantity reaches the minimum, every order reaches the minimum, and the
\* quantities add up to at most the floored 90% and to within one step of it.
TpSplitSum ==
  (calc.op = "tp_split" /\ calc.ntp = Len(TP_SPLITS)) =>
    LET total == FloorPctToStep(calc.size, 90, calc.qty_step)
        sum == SumSeq([i \in 1..Len(calc.orders) |-> calc.orders[i].qty])
    IN IF total < calc.min_qty
       THEN /\ Len(calc.orders) <= 1
            /\ Len(calc.orders) = 1 => calc.orders[1].qty = total
       ELSE /\ {calc.orders[i].idx : i \in 1..Len(calc.orders)}
                 = {i \in 1..Len(TP_SPLITS) :
                      FloorPctToStep(calc.size, TP_SPLITS[i], calc.qty_step)
                        >= calc.min_qty}
            /\ \A i \in 1..Len(calc.orders) : calc.orders[i].qty >= calc.min_qty
            /\ sum <= total
            /\ total - sum <= calc.qty_step

\* C18: with at least 5 candles fetched, the stop returned by
\* _find_swing_point lies on the loss side of entry at the distance
\* max(SL_MIN_PCT, min(SL_MAX_PCT, d)), d being the distance of the buffered
\* swing point; with fewer candles or a fetch error nothing is returned.
SwingStopClamped ==
  calc.op = "swing" =>
    IF calc.fetchOk /\ Len(calc.candles) >= 5
    THEN LET e == calc.entry_price
             d == Distance100(calc.side, e, SwingSl100(calc.side, calc.candles))
             capped == IF d < SL_MAX_PCT * e THEN d ELSE SL_MAX_PCT * e
             clamped == IF capped > SL_MIN_PCT * e THEN capped ELSE SL_MIN_PCT * e
         IN /\ calc.result.found
            /\ Distance100(calc.side, e, calc.result.sl100) = clamped
            /\ calc.side = "Buy" => calc.result.sl100 < 100 * e
            /\ calc.side = "Sell" => calc.result.sl100 > 100 * e
    ELSE ~calc.result.found

SwingBeyondEntryClamped ==
  /\ calc.op = "swing" /\ calc.result.found
  /\ Distance100(calc.side, calc.entry_price,
                 SwingSl100(calc.side, calc.candles)) < 0
  /\ Distance100(calc.side, calc.entry_price, calc.result.sl100)
       = SL_MIN_PCT * calc.entry_price

\* The rules of the exit-reason classification, in their order.
ExitRules ==
  << calc.trailing_started /\ calc.pnl > 0,
     calc.tp_fills >= calc.tp_count,
     calc.tp_fills > 0 /\ calc.sl_moved_to_be /\ Abs(calc.pnl) < BE_PNL_TENTHS,
     calc.tp_fills > 0,
     calc.pnl < 0,
     TRUE >>

ExitNames ==
  <<"trailing_stop", "all_tps_hit", "breakeven", "tp_then_sl", "stop_loss", "unknown">>

\* C19: _determine_exit_reason returns the reason of the first rule that
\* matches, in the order trailing stop, all targets hit, breakeven, partial
\* then stopped (with the number of TPs filled), stop loss, unknown.
ExitReasonFirstMatch ==
  calc.op = "exit" =>
    LET first == CHOOSE i \in 1..Len(ExitRules) :
                   ExitRules[i] /\ \A j \in 1..(i - 1) : ~ExitRules[j]
    IN /\ calc.result.name = ExitNames[first]
       /\ calc.result.name = "tp_then_sl" => calc.result.tp = calc.tp_fills

TrailingWithoutProfitAllHit ==
  /\ calc.op = "exit" /\ calc.trailing_started /\ calc.pnl <= 0
  /\ calc.tp_count > 0 /\ calc.tp_fills = calc.tp_count
  /\ calc.result.name = "all_tps_hit"

\* C20: an exception in a maintenance tick or in the handling of an
\* execution event never ends its loop: whatever was raised, both loops are
\* still running, so the next tick and the next event are taken.
LoopsSurviveExceptions ==
  loops.maintenance = "running" /\ loops.ws = "running"

BothLoopsCaughtException ==
  /\ loops.caught = {"maintenance", "ws"}
  /\ loops.maintenance = "running" /\ loops.ws = "running"

\* C21: when place_post_entry_orders runs for an open trade and the exchange
\* refuses the stop-loss update or one of the take-profit orders, the trade
\* is left with post_orders_placed unset, so that a later sweep places again.
PostOrderFailureLeftForRetry ==
  \A t \in Slots :
    LET sz == position_size_avg(open_trades[t].symbol)
    IN (open_trades[t].status = "open" /\ ~open_trades[t].post_orders_placed
        /\ sz > 0) =>
         \A e \in PPEnvs(sz) :
           (e.rulesOk /\ e.posOk /\ (~e.slOk \/ e.tpAcc # TPIdx)) =>
              LET after == place_post_entry_orders(Cell(t), sz, e).c.tr
              IN ~after.post_orders_placed /\ NeedsPostOrders(after)

\* C22: a trade is marked expired only while its entry order has no fill:
\* no step turns a trade whose entry order has filled into an expired trade.
ExpiredOnlyUnfilled ==
  [][\A t \in Slots :
       (open_trades[t].status # "expired" /\ open_trades'[t].status = "expired")
          => exch[t].entry # "filled"]_vars

\* C23: a trade is marked expired only once its entry order has actually
\* been cancelled: no expired trade has its entry order still resting on the
\* exchange.
ExpiredEntryCancelled ==
  \A t \in Slots :
    open_trades[t].status = "expired" => exch[t].entry # "live"

\* C28: an execution event with a TP tag changes the record of a trade only
\* if the trade is open: for a pending, closed or expired trade still in
\* open_trades, handling any TP event the exchange can deliver leaves the
\* record as it was and raises nothing.
TpEventOnlyForOpenTrade ==
  \A t \in Slots :
    open_trades[t].status \in {"pending", "closed", "expired"} =>
      \A n \in exch[t].tpFilled, e \in TPEnvs :
         /\ OnTpFill(Cell(t), n, e).tr = open_trades[t]
         /\ ~OnTpRaises(Cell(t), n, e)

\* The tick up to and including check_tp_fills_fallback.
SweepUpToFallback(cs, env) ==
  LET a == [t \in Slots |-> CancelExpiredOne(cs[t], env[t])]
      b == [t \in Slots |-> CleanupOne(a[t], env[t])]
      c == [t \in Slots |-> PruneOne(b[t])]
  IN FallbackLoop(c, env, 1)

\* C24: within one sweep a failure of one responsibility does not keep the
\* later ones from running: whatever the exchange answers, when the TP1
\* fallback raises, the entry-fill poll and the post-order retry still run
\* in the same tick, so the tick leaves the trades as the poll leaves them.
SweepFailureIsolated ==
  \A env \in SweepEnvSeqs(1) :
    LET d == SweepUpToFallback(Cells, env)
    IN d.raised => SweepResult(Cells, env).cs = PollLoop(d.cs, env, 1).cs

\* C25: in the normal flow of the TP split, every split that is skipped
\* because its rounded quantity is below the minimum order quantity is
\* followed by a placed TP order, the one its percentage is added to.
SkippedSplitCarried ==
  calc.op = "tp_split" =>
    LET tp_to_place == IF calc.ntp < Len(TP_SPLITS) THEN calc.ntp ELSE Len(TP_SPLITS)
        splits_sum == SumSeq(SubSeq(TP_SPLITS, 1, tp_to_place))
        normal == FloorPctToStep(calc.size, splits_sum, calc.qty_step) >= calc.min_qty
    IN normal =>
         \A idx \in 1..tp_to_place :
            FloorPctToStep(calc.size, TP_SPLITS[idx], calc.qty_step) < calc.min_qty
              => \E k \in 1..Len(calc.orders) : calc.orders[k].idx > idx

\* C26: finding an entry fill by polling is the same transition as receiving
\* the entry-fill event: for a pending trade whose position is nonzero, and
\* for every answer of the exchange, the poll of the sweep leaves the record
\* and the effects (orders submitted, 'opened' notification) that the push
\* event would leave.
PollSameAsPush ==
  \A t \in Slots :
    LET sz == position_size_avg(open_trades[t].symbol)
    IN (open_trades[t].status = "pending" /\ sz > 0) =>
         \A e \in PPEnvs(sz) :
            PollOne(Cell(t), [SwDefault EXCEPT !.pp = e]).c
              = OnEntryFill(Cell(t), open_trades[t].trigger, sz, e)

\* The fallback's case: an open trade with its post-entry orders placed and
\* the stop-loss not at breakeven, whose TP1 order is no longer open or whose
\* TP1 price has been passed.
Tp1GoneOrPassed(t, e) ==
  /\ open_trades[t].status = "open"
  /\ open_trades[t].post_orders_placed
  /\ ~open_trades[t].sl_moved_to_be
  /\ \/ open_trades[t].tp1_order_id /\ 1 \notin exch[t].tpLive
     \/ e.pricePassed

MoveSlBoundedRetry ==
  calc.op = "move_sl" =>
    LET r == calc.result
        ok == {i \in 1..MAX_RETRIES : calc.answers[i]}
    IN /\ r.calls <= MAX_RETRIES
       /\ ~calc.rulesOk => r.result = "raised" /\ r.calls = 0
       /\ calc.rulesOk =>
            /\ r.result \in {"true", "false"}
            /\ r.result = "true" <=> ok # {}
            /\ r.result = "true" =>
                  r.calls \in ok /\ \A j \in ok : r.calls <= j
            /\ r.result = "false" => r.calls = MAX_RETRIES

MoveSlThirdAttemptSucceeds ==
  /\ calc.op = "move_sl" /\ calc.rulesOk
  /\ calc.result = [calls |-> 3, result |-> "true"]

\* C30 as stated: whenever trailing is activated for a trade whose stop-loss
\* was moved to breakeven and whose entry price is recorded, the trailing
\* request carries a stop-loss equal to the entry price.
TrailingCarriesEntryPrice ==
  (calc.op = "trailing" /\ calc.sl_moved_to_be /\ calc.entry_price # 0
   /\ ~calc.result.raised) =>
     calc.result.body.stopLoss = calc.entry_price

\* C30: whenever trailing is activated for a trade whose stop-loss was moved
\* to breakeven, the trailing request carries a stop-loss: the tick nearest
\* to the entry price (to the trigger price when no entry price is
\* recorded), at most half a tick from it, in the same request as the
\* trailing distance.
TrailingCarriesBreakevenTick ==
  (calc.op = "trailing" /\ calc.sl_moved_to_be /\ ~calc.result.raised) =>
     LET body == calc.result.body
         be == BePrice(calc.entry_price, calc.trigger)
     IN /\ body.trailingStop # Absent
        /\ body.stopLoss # Absent
        /\ body.stopLoss % calc.tick_size = 0
        /\ 2 * Abs(body.stopLoss - be) <= calc.tick_size

TrailingKeepsRoundedBreakeven ==
  /\ calc.op = "trailing" /\ calc.sl_moved_to_be /\ calc.result.called
  /\ calc.entry_price = 9 /\ calc.tick_size = 2
  /\ calc.result.body.stopLoss = 8

\* C35: the poll moves a pending trade to open only if that trade's own
\* entry order has filled: no step opens a trade whose entry order is not
\* filled, whatever position another trade holds on the same symbol.
OpensOnlyOnOwnFill ==
  [][\A t \in Slots :
       (open_trades[t].status = "pending" /\ open_trades'[t].status = "open")
          => exch[t].entry = "filled"]_vars

\* C37: sl_moved_to_be is set only when the exchange accepted the stop-loss
\* update: when every attempt of the move fails, the TP event leaves the
\* flag unset.
BreakevenFlagOnlyIfAccepted ==
  \A t \in Slots :
    (open_trades[t].status # "none" /\ ~open_trades[t].sl_moved_to_be) =>
      \A n \in exch[t].tpFilled, e \in TPEnvs :
         ~e.moveOk => ~OnTpFill(Cell(t), n, e).tr.sl_moved_to_be

\* C38: whenever place_entry_order returned an order id, the handler has
\* stored a trade record for it before it returns: with the handler idle,
\* every entry order handed out has had its record stored.
PlacedEntryHasRecord ==
  tg.pc = "idle" => \A t \in 1..nplaced : hist[t].storedDay # -1

\* C36: a trade opened by the entry-fill event is not marked closed before a
\* position query made for it has answered with a nonzero size at least once.
ClosedOnlyAfterPositionSeen ==
  [][\A t \in Slots :
       (open_trades[t].status = "open" /\ open_trades'[t].status = "closed"
        /\ hist[t].opened > 0) => hist[t].sized]_vars

\* C32: a restart leaves the loaded blob as it was saved (open_trades,
\* trade_history, daily_counts, seen) and leaves every order and position on
\* the exchange and the saved file untouched, whether or not startup_sync
\* logged an orphaned position; no handler is in progress when it returns.
StartupSyncChangesNothing ==
  [][CrashRestart =>
       /\ open_trades' = disk.open_trades
       /\ trade_history' = disk.trade_history
       /\ daily_counts' = disk.daily_counts
       /\ seen' = disk.seen
       /\ exch' = exch /\ pos' = pos /\ disk' = disk /\ nplaced' = nplaced
       /\ tg'.pc = "idle"]_vars

OrphanLoggedAtRestart ==
  /\ calc.op = "startup_sync" /\ calc.orphaned # {}
  /\ \E s \in Symbols : pos[s]
  /\ \E t \in Slots : exch[t].entry = "filled" /\ open_trades[t].status = "none"

\* C34: when the last price is at or beyond the too-far threshold of the
\* signal's side, the handler submits no order (the exchange's orders and the
\* number of placed entries stay as they are), writes no trade record, leaves
\* the daily count alone and returns.
TooFarPlacesNothing ==
  [][\A sig \in FeedAll, last \in LastPrices :
       ( /\ TgReceiveAt(sig, last, TRUE)
         /\ IF sig.side = "sell"
            THEN last * 100 <= sig.trigger * (100 - ENTRY_TOO_FAR_PCT)
            ELSE last * 100 >= sig.trigger * (100 + ENTRY_TOO_FAR_PCT) )
       => /\ exch' = exch /\ nplaced' = nplaced
          /\ open_trades' = open_trades /\ daily_counts' = daily_counts
          /\ tg'.pc = "idle"]_vars

SkippedSignalLeftNoOrder ==
  /\ seen # {} /\ nplaced = 0 /\ tg.pc = "idle"
  /\ \A t \in Slots : exch[t].entry = "none" /\ open_trades[t].status = "none"
  /\ \A d \in Days : daily_counts[d] = 0

\* C31: in the parallel placement the stop-loss update is the first task
\* submitted and the first a worker takes up; post_orders_placed is set only when
\* every task (the stop-loss and each take-profit order) was submitted and
\* has ended, accepted or failed; a failed take-profit order leaves the
\* others submitted and the accepted ones recorded.
StopLossFirstAndAllAwaited ==
  calc.op = "post" =>
    /\ calc.submitted # <<>> => calc.submitted[1] = 0
    /\ calc.taken # <<>> => calc.taken[1] = 0
    /\ calc.pc # "submit" =>
         {calc.submitted[i] : i \in 1..Len(calc.submitted)} = PostTasks(calc.ntp)
    /\ calc.post_orders_placed =>
         /\ \A task \in PostTasks(calc.ntp) : Finished(task)
         /\ Len(calc.submitted) = calc.ntp + 1
         /\ calc.tp_order_ids = {task \in 1..calc.ntp : calc.run[task] = "ok"}

PlacedWithOneTakeProfitFailed ==
  /\ calc.op = "post" /\ calc.post_orders_placed
  /\ \E a, b \in 1..calc.ntp :
       /\ calc.run[a] = "failed" /\ calc.run[b] = "ok" /\ a < b
       /\ b \in calc.tp_order_ids /\ a \notin calc.tp_order_ids

\* C33: every order _cancel_all_trade_orders cancels is an open take-profit
\* order of the closing trade, carrying that trade's id followed by ":"; no
\* order of another trade is cancelled, even when the two trades share the
\* symbol and one id is the beginning of the other.
CancelsOnlyOwnOrders ==
  calc.op = "cancel" =>
    \A o \in calc.cancelled :
      /\ o \in calc.open_orders
      /\ o.owner = calc.trade_id /\ o.kind = "tp"
      /\ \E n \in TpTags : o.orderLinkId = TpLinkId(calc.trade_id, n)

OtherTradeOrdersSurvive ==
  /\ calc.op = "cancel" /\ calc.cancelled # {}
  /\ StartsWith(calc.other, calc.trade_id)
  /\ \E o \in calc.open_orders \ calc.cancelled : o.owner = calc.other /\ o.kind = "tp"
  /\ \E o \in calc.open_orders \ calc.cancelled : o.owner = calc.other /\ o.kind = "entry"

\* C40: no thread waits for state_lock while it holds it; the lock is held
\* exactly by a thread that is inside one of its locked sections, so it is
\* released on every way out of a section, exceptions included; whenever a
\* thread waits, the lock is free or held by a thread that can run on and
\* release it.
StateLockNeverSelfBlocked ==
  calc.op = "lock" =>
    /\ calc.holder \in Threads \cup {"none"}
    /\ \A th \in Threads :
         /\ calc.phase[th] = "want" => calc.holder # th
         /\ calc.holder = th <=>
              (calc.phase[th] = "in" /\ Sections(th)[calc.pc[th]])
         /\ calc.phase[th] = "want" =>
              \/ calc.holder = "none"
              \/ calc.holder \in Threads /\ calc.phase[calc.holder] = "in"

LockContendedAfterException ==
  /\ calc.op = "lock"
  /\ {"telegram", "ws"} \subseteq calc.raised
  /\ calc.holder = "maintenance" /\ calc.pc["maintenance"] = 3
  /\ calc.phase["telegram"] = "want" /\ calc.phase["ws"] = "want"

\* C39: the number of trade records with status pending or open never
\* exceeds MAX_CONCURRENT_TRADES, whatever the interleaving of signal
\* handling, execution events and sweeps.
ConcurrentTradesWithinLimit ==
  active_trades_count <= MAX_CONCURRENT_TRADES

OnlyConcurrencyLimitBinds ==
  /\ active_trades_count = MAX_CONCURRENT_TRADES
  /\ trades_today < MAX_TRADES_PER_DAY
  /\ signals_in_window < SIGNALS_PER_WINDOW
  /\ tg.pc = "idle" /\ nplaced < MaxTrades
  /\ ~AlreadySeen(signal_hash(FeedCores[nplaced + 1]))

====
